---- MODULE Spec2Model ----
(***************************************************************************)
(* Customer onboarding pipeline of GoogleADK-BankScanner:                  *)
(* CoordinatorAgent.process_new_customer and the agents and tools it       *)
(* drives (scan/classify/extract, document validation, profile compile,    *)
(* profile validation, account creation, activation).                      *)
(*                                                                         *)
(* Strings whose characters matter (filenames, social security numbers)    *)
(* are sequences of one-character strings.  Other field values are TLA+    *)
(* strings; None stands for Python's None.                                 *)
(***************************************************************************)
EXTENDS Integers, Sequences, FiniteSets, TLC

VARIABLES
    pc,            \* position of the coordinator inside process_new_customer
    files,         \* the batch handed to process_new_customer
    documents,     \* scanned_documents / validated_documents (same objects)
    customer_data, \* the compiled CustomerData, or None
    bank_account,  \* the BankAccount object returned by create_account, or None
    result,        \* the ProcessingResult returned, or None
    raised,        \* TRUE when process_new_customer let an exception escape
    exc,           \* message of the exception raised inside the try block, or None
    store,         \* the Firestore collection "bank_accounts": key -> record
    store0,        \* the collection as it was when the run started
    runs,          \* number of runs started on this coordinator
    trace,         \* stages the run has executed, in order
    fn_in,         \* argument of a pure function applied on its own
    fn_out         \* its result

vars == <<pc, files, documents, customer_data, bank_account, result, raised,
          exc, store, store0, runs, trace, fn_in, fn_out>>

pipeline_vars == <<pc, files, documents, customer_data, bank_account, result,
                   raised, exc, store, store0, runs, trace>>

(***************************************************************************)
(* Bounds                                                                  *)
(***************************************************************************)
MaxFiles == 3    \* files in one batch
MaxRuns == 2     \* runs of the coordinator sharing the account store
MaxTokens == 2   \* chunks a filename handed to _identify_document_type is built of
MaxDocs == 4     \* documents handed to steps 2 to 4 of process_new_customer

None == "<None>"

\* Python truthiness of a field value: None and "" are falsy
Truthy(v) == v # None /\ v # ""

\* dict.get(key): the value, or None when the key is absent
Get(d, k) == IF k \in DOMAIN d THEN d[k] ELSE None

\* the empty dict {}
EmptyDict == [k \in {} |-> None]

(***************************************************************************)
(* src/models/types.py enumerations                                        *)
(***************************************************************************)
DRIVERS_LICENSE == "drivers_license"
PASSPORT == "passport"
SOCIAL_SECURITY_CARD == "social_security_card"
PROOF_OF_ADDRESS == "proof_of_address"
EMPLOYMENT_VERIFICATION == "employment_verification"
BANK_STATEMENT == "bank_statement"

DocumentType == {DRIVERS_LICENSE, PASSPORT, SOCIAL_SECURITY_CARD,
                 PROOF_OF_ADDRESS, EMPLOYMENT_VERIFICATION, BANK_STATEMENT}

VS_PENDING == "pending"
VS_VERIFIED == "verified"
VS_REJECTED == "rejected"
VS_REQUIRES_MANUAL_REVIEW == "requires_manual_review"

VerificationStatus == {VS_PENDING, VS_VERIFIED, VS_REJECTED,
                       VS_REQUIRES_MANUAL_REVIEW}

AS_ACTIVE == "active"
AS_PENDING == "pending"
AS_SUSPENDED == "suspended"
AS_CLOSED == "closed"

AccountStatus == {AS_ACTIVE, AS_PENDING, AS_SUSPENDED, AS_CLOSED}

CHECKING == "checking"

(***************************************************************************)
(* Character strings                                                       *)
(***************************************************************************)
UpperToLower ==
    [c \in {"A","B","C","D","E","F","I","K","L","N","O","P","R","S","T"} |->
        CASE c = "A" -> "a" [] c = "B" -> "b" [] c = "C" -> "c"
          [] c = "D" -> "d" [] c = "E" -> "e" [] c = "F" -> "f"
          [] c = "I" -> "i" [] c = "K" -> "k" [] c = "L" -> "l"
          [] c = "N" -> "n" [] c = "O" -> "o" [] c = "P" -> "p"
          [] c = "R" -> "r" [] c = "S" -> "s" [] c = "T" -> "t"]

\* str.lower()
Lower(s) ==
    [i \in 1..Len(s) |->
        IF s[i] \in DOMAIN UpperToLower THEN UpperToLower[s[i]] ELSE s[i]]

\* keyword in text
Contains(text, keyword) ==
    \E t \in {text} :
        \E i \in 1..(Len(t) - Len(keyword) + 1) :
            SubSeq(t, i, i + Len(keyword) - 1) = keyword

\* any(keyword in text for keyword in keywords)
AnyIn(text, keywords) == \E k \in keywords : Contains(text, k)

KW_license == <<"l","i","c","e","n","s","e">>
KW_dl == <<"d","l">>
KW_driver == <<"d","r","i","v","e","r">>
KW_passport == <<"p","a","s","s","p","o","r","t">>
KW_ssn == <<"s","s","n">>
KW_social == <<"s","o","c","i","a","l">>
KW_security == <<"s","e","c","u","r","i","t","y">>
KW_address == <<"a","d","d","r","e","s","s">>
KW_utility == <<"u","t","i","l","i","t","y">>
KW_bill == <<"b","i","l","l">>
KW_employment == <<"e","m","p","l","o","y","m","e","n","t">>
KW_pay == <<"p","a","y">>
KW_salary == <<"s","a","l","a","r","y">>
KW_bank == <<"b","a","n","k">>
KW_statement == <<"s","t","a","t","e","m","e","n","t">>

(***************************************************************************)
(* DocumentScannerAgent._identify_document_type                            *)
(***************************************************************************)
IdentifyNoLower(filename) ==
    IF AnyIn(filename, {KW_license, KW_dl, KW_driver}) THEN DRIVERS_LICENSE
    ELSE IF Contains(filename, KW_passport) THEN PASSPORT
    ELSE IF AnyIn(filename, {KW_ssn, KW_social, KW_security})
        THEN SOCIAL_SECURITY_CARD
    ELSE IF AnyIn(filename, {KW_address, KW_utility, KW_bill})
        THEN PROOF_OF_ADDRESS
    ELSE IF AnyIn(filename, {KW_employment, KW_pay, KW_salary})
        THEN EMPLOYMENT_VERIFICATION
    ELSE IF AnyIn(filename, {KW_bank, KW_statement}) THEN BANK_STATEMENT
    ELSE DRIVERS_LICENSE

IdentifyPassportFirst(filename) ==
    LET filename_lower == Lower(filename) IN
    IF Contains(filename_lower, KW_passport) THEN PASSPORT
    ELSE IdentifyNoLower(filename_lower)

_identify_document_type(filename) ==
    LET filename_lower == Lower(filename) IN
    IF AnyIn(filename_lower, {KW_license, KW_dl, KW_driver})
        THEN DRIVERS_LICENSE
    ELSE IF Contains(filename_lower, KW_passport) THEN PASSPORT
    ELSE IF AnyIn(filename_lower, {KW_ssn, KW_social, KW_security})
        THEN SOCIAL_SECURITY_CARD
    ELSE IF AnyIn(filename_lower, {KW_address, KW_utility, KW_bill})
        THEN PROOF_OF_ADDRESS
    ELSE IF AnyIn(filename_lower, {KW_employment, KW_pay, KW_salary})
        THEN EMPLOYMENT_VERIFICATION
    ELSE IF AnyIn(filename_lower, {KW_bank, KW_statement})
        THEN BANK_STATEMENT
    ELSE DRIVERS_LICENSE

(***************************************************************************)
(* DocumentProcessor (src/tools/document_processor.py)                     *)
(*                                                                         *)
(* The Document AI service is the environment: what it answers for the     *)
(* bytes of a file is part of the file, as content.service_ok (FALSE: the  *)
(* call raises) and content.entities (entity type -> mention text).        *)
(***************************************************************************)
_parse_drivers_license(data) ==
    [license_number  |-> Get(data, "license_number"),
     first_name      |-> Get(data, "first_name"),
     last_name       |-> Get(data, "last_name"),
     date_of_birth   |-> Get(data, "date_of_birth"),
     address         |-> Get(data, "address"),
     expiration_date |-> Get(data, "expiration_date"),
     state           |-> Get(data, "state")]

_parse_passport(data) ==
    [passport_number |-> Get(data, "passport_number"),
     first_name      |-> Get(data, "given_names"),
     last_name       |-> Get(data, "surname"),
     date_of_birth   |-> Get(data, "date_of_birth"),
     nationality     |-> Get(data, "nationality"),
     expiration_date |-> Get(data, "expiration_date")]

_parse_ssn(data) ==
    [social_security_number |-> Get(data, "ssn"),
     first_name             |-> Get(data, "first_name"),
     last_name              |-> Get(data, "last_name")]

_parse_address(data) ==
    [street   |-> Get(data, "street_address"),
     city     |-> Get(data, "city"),
     state    |-> Get(data, "state"),
     zip_code |-> Get(data, "zip_code"),
     country  |-> Get(data, "country")]

_parse_employment(data) ==
    [employer   |-> Get(data, "employer"),
     position   |-> Get(data, "position"),
     salary     |-> Get(data, "salary"),
     start_date |-> Get(data, "start_date")]

_parse_bank_statement(data) ==
    [bank_name      |-> Get(data, "bank_name"),
     account_number |-> Get(data, "account_number"),
     balance        |-> Get(data, "balance"),
     statement_date |-> Get(data, "statement_date")]

_extract_structured_data(entities, document_type) ==
    IF DOMAIN entities = {} THEN EmptyDict
    ELSE
      LET kept == {k \in DOMAIN entities : Truthy(entities[k])}
          extracted_data == [k \in kept |-> entities[k]]
      IN CASE document_type = DRIVERS_LICENSE ->
                  _parse_drivers_license(extracted_data)
           [] document_type = PASSPORT -> _parse_passport(extracted_data)
           [] document_type = SOCIAL_SECURITY_CARD -> _parse_ssn(extracted_data)
           [] document_type = PROOF_OF_ADDRESS -> _parse_address(extracted_data)
           [] document_type = EMPLOYMENT_VERIFICATION ->
                  _parse_employment(extracted_data)
           [] document_type = BANK_STATEMENT ->
                  _parse_bank_statement(extracted_data)
           [] OTHER -> extracted_data

\* an extraction failure that is not caught: the exception leaves the call
ProcessDocumentPropagates(content, document_type) ==
    IF content.service_ok
        THEN [raised |-> FALSE,
              value  |-> _extract_structured_data(content.entities, document_type)]
        ELSE [raised |-> TRUE, value |-> EmptyDict]

\* try: ... except Exception: return {}
process_document(content, document_type) ==
    IF content.service_ok
        THEN [raised |-> FALSE,
              value  |-> _extract_structured_data(content.entities, document_type)]
        ELSE [raised |-> FALSE, value |-> EmptyDict]

(***************************************************************************)
(* ValidationTool (src/tools/validation_tool.py)                           *)
(***************************************************************************)
\* the characters of the social security numbers of the model
Chars(s) ==
    CASE s = "123-45-6789" -> <<"1","2","3","-","4","5","-","6","7","8","9">>
      [] s = "123456789"   -> <<"1","2","3","4","5","6","7","8","9">>
      [] s = "12-345-6789" -> <<"1","2","-","3","4","5","-","6","7","8","9">>
      [] s = "123-45-678"  -> <<"1","2","3","-","4","5","-","6","7","8">>
      [] s = "123-45-67890" ->
             <<"1","2","3","-","4","5","-","6","7","8","9","0">>
      [] s = "1234567890"  -> <<"1","2","3","4","5","6","7","8","9","0">>
      [] s = "123 45 6789" -> <<"1","2","3"," ","4","5"," ","6","7","8","9">>
      [] s = "abc-de-fghi" -> <<"a","b","c","-","d","e","-","f","g","h","i">>
      [] s = "123456789\n" -> <<"1","2","3","4","5","6","7","8","9","\n">>
      [] s = "123-45-6789\n" ->
             <<"1","2","3","-","4","5","-","6","7","8","9","\n">>
      [] s = "123-456789"  -> <<"1","2","3","-","4","5","6","7","8","9">>
      [] s = "12345-6789"  -> <<"1","2","3","4","5","-","6","7","8","9">>
      [] s = " 123456789"  -> <<" ","1","2","3","4","5","6","7","8","9">>
      [] s = "" -> << >>

Digits == {"0","1","2","3","4","5","6","7","8","9"}

\* r'^\d{3}-\d{2}-\d{4}$' ; $ also matches before one trailing newline
MatchDashed(c) ==
    LET n == IF Len(c) = 12 /\ c[12] = "\n" THEN 11 ELSE Len(c) IN
    /\ n = 11
    /\ \A i \in {1, 2, 3, 5, 6, 8, 9, 10, 11} : c[i] \in Digits
    /\ c[4] = "-"
    /\ c[7] = "-"

\* r'^\d{9}$'
MatchBare(c) ==
    LET n == IF Len(c) = 10 /\ c[10] = "\n" THEN 9 ELSE Len(c) IN
    /\ n = 9
    /\ \A i \in 1..9 : c[i] \in Digits

_validate_ssn(data) ==
    LET ssn == Get(data, "social_security_number") IN
    IF ~Truthy(ssn) THEN FALSE
    ELSE MatchDashed(Chars(ssn)) \/ MatchBare(Chars(ssn))

\* all(data.get(field) for field in required_fields)
AllFields(data, required_fields) ==
    \A field \in required_fields : Truthy(Get(data, field))

_validate_drivers_license(data) ==
    AllFields(data, {"license_number", "first_name", "last_name",
                     "date_of_birth"})

_validate_passport(data) ==
    AllFields(data, {"passport_number", "first_name", "last_name",
                     "date_of_birth"})

_validate_address(data) ==
    AllFields(data, {"street", "city", "state", "zip_code"})

_validate_employment(data) == AllFields(data, {"employer", "position"})

validate_document(document) ==
    IF DOMAIN document.extracted_data = {} THEN FALSE
    ELSE CASE document.type = DRIVERS_LICENSE ->
                  _validate_drivers_license(document.extracted_data)
           [] document.type = PASSPORT ->
                  _validate_passport(document.extracted_data)
           [] document.type = SOCIAL_SECURITY_CARD ->
                  _validate_ssn(document.extracted_data)
           [] document.type = PROOF_OF_ADDRESS ->
                  _validate_address(document.extracted_data)
           [] document.type = EMPLOYMENT_VERIFICATION ->
                  _validate_employment(document.extracted_data)
           [] OTHER -> TRUE

\* a personal check that wants a social security number too
PersonalInfoWithSsn(c) ==
    /\ Truthy(c.first_name)
    /\ Truthy(c.last_name)
    /\ Truthy(c.date_of_birth)
    /\ Truthy(c.social_security_number)
    /\ Truthy(c.email)
    /\ Truthy(c.phone_number)

_validate_personal_info(c) ==
    /\ Truthy(c.first_name)
    /\ Truthy(c.last_name)
    /\ Truthy(c.date_of_birth)
    /\ Truthy(c.email)
    /\ Truthy(c.phone_number)

\* an address check that looks at the street only
AddressInfoStreetOnly(address) == Truthy(address.street)

_validate_address_info(address) ==
    /\ Truthy(address.street)
    /\ Truthy(address.city)
    /\ Truthy(address.state)
    /\ Truthy(address.zip_code)

\* an employment check that does not look at the income
EmploymentInfoWithoutIncome(employment_info) ==
    /\ Truthy(employment_info.employer)
    /\ Truthy(employment_info.position)

_validate_employment_info(employment_info) ==
    /\ Truthy(employment_info.employer)
    /\ Truthy(employment_info.position)
    /\ employment_info.annual_income > 0

validate_customer_data(c) ==
    /\ _validate_personal_info(c)
    /\ _validate_address_info(c.address)
    /\ _validate_employment_info(c.employment_info)
    /\ Len(c.documents) > 0

(***************************************************************************)
(* ValidationAgent.validate_documents                                      *)
(***************************************************************************)
ValidateDocumentsKeepStatus(docs) == docs

validate_documents(docs) ==
    [i \in 1..Len(docs) |->
        [docs[i] EXCEPT !.verification_status =
            IF validate_document(docs[i]) THEN VS_VERIFIED ELSE VS_REJECTED]]

(***************************************************************************)
(* DocumentScannerAgent.scan_documents                                     *)
(*                                                                         *)
(* A file is [shape, filename, content].  shape "ok": a dict with the keys *)
(* 'filename' and 'content'; "no_content": the 'content' key is missing    *)
(* (KeyError inside the try, the file is skipped); "no_filename": the      *)
(* 'filename' key is missing (KeyError inside the try and again inside the *)
(* except clause that prints the filename, so the call raises).            *)
(***************************************************************************)
KeyErrorFilename == "'filename'"

\* the Document built for files[i] in run `run`, or nothing when the body
\* of the loop raised and the file was skipped
ScanOne(file, run, i) ==
    IF file.shape # "ok" THEN << >>
    ELSE
      LET document_type == _identify_document_type(file.filename)
          extracted == process_document(file.content, document_type)
      IN IF extracted.raised THEN << >>
         ELSE << [id                  |-> <<run, i>>,
                  type                |-> document_type,
                  file_name           |-> file.filename,
                  extracted_data      |-> extracted.value,
                  verification_status |-> VS_PENDING] >>

\* a scan that hands the documents back last file first
RECURSIVE ScanFromReversed(_, _, _)
ScanFromReversed(fs, run, i) ==
    IF i > Len(fs) THEN << >>
    ELSE ScanFromReversed(fs, run, i + 1) \o ScanOne(fs[i], run, i)

RECURSIVE ScanFrom(_, _, _)
ScanFrom(fs, run, i) ==
    IF i > Len(fs) THEN << >>
    ELSE ScanOne(fs[i], run, i) \o ScanFrom(fs, run, i + 1)

scan_documents(fs, run) ==
    IF \E i \in 1..Len(fs) : fs[i].shape = "no_filename"
        THEN [raised |-> TRUE, error |-> KeyErrorFilename, value |-> << >>]
        ELSE [raised |-> FALSE, error |-> None, value |-> ScanFrom(fs, run, 1)]

(***************************************************************************)
(* CoordinatorAgent._compile_customer_data                                 *)
(***************************************************************************)
\* float(text): the strings of the model that parse, and their values
FloatParses(text) == text \in {"75000", "0", "-1200"}

FloatOf(text) ==
    CASE text = "75000" -> 75000
      [] text = "0" -> 0
      [] text = "-1200" -> 0 - 1200

EmptyCustomer(id, docs) ==
    [id                     |-> id,
     first_name             |-> "",
     last_name              |-> "",
     date_of_birth          |-> "",
     social_security_number |-> "",
     address                |-> [street |-> "", city |-> "", state |-> "",
                                 zip_code |-> "", country |-> "USA"],
     phone_number           |-> "",
     email                  |-> "",
     employment_info        |-> [employer |-> "", position |-> "",
                                 annual_income |-> 0,
                                 employment_start_date |-> ""],
     documents              |-> docs]

\* a fold in which the first document that supplies a field keeps it
PickKeepFirst(data, key, old) ==
    IF Truthy(old) THEN old
    ELSE IF Truthy(Get(data, key)) THEN data[key] ELSE old

\* if data.get(key): target = data[key]
Pick(data, key, old) == IF Truthy(Get(data, key)) THEN data[key] ELSE old

\* an iteration in which an identity document writes its address only to
\* a street that is still empty
FoldDocumentIdKeepsStreet(c, document) ==
    LET data == document.extracted_data IN
    IF document.type = DRIVERS_LICENSE \/ document.type = PASSPORT THEN
        [c EXCEPT !.first_name = Pick(data, "first_name", @),
                  !.last_name = Pick(data, "last_name", @),
                  !.date_of_birth = Pick(data, "date_of_birth", @),
                  !.address.street =
                      IF Truthy(@) THEN @ ELSE Pick(data, "address", @)]
    ELSE IF document.type = SOCIAL_SECURITY_CARD THEN
        [c EXCEPT !.social_security_number =
                      Pick(data, "social_security_number", @)]
    ELSE IF document.type = PROOF_OF_ADDRESS THEN
        [c EXCEPT !.address.street = Pick(data, "street", @),
                  !.address.city = Pick(data, "city", @),
                  !.address.state = Pick(data, "state", @),
                  !.address.zip_code = Pick(data, "zip_code", @)]
    ELSE IF document.type = EMPLOYMENT_VERIFICATION THEN
        [c EXCEPT !.employment_info.employer = Pick(data, "employer", @),
                  !.employment_info.position = Pick(data, "position", @),
                  !.employment_info.annual_income =
                      IF Truthy(Get(data, "salary")) /\ FloatParses(data.salary)
                          THEN FloatOf(data.salary) ELSE @,
                  !.employment_info.employment_start_date =
                      Pick(data, "start_date", @)]
    ELSE c

\* an iteration in which an identity document also writes its state
FoldDocumentIdWritesState(c, document) ==
    LET data == document.extracted_data IN
    IF document.type = DRIVERS_LICENSE \/ document.type = PASSPORT THEN
        [c EXCEPT !.first_name = Pick(data, "first_name", @),
                  !.last_name = Pick(data, "last_name", @),
                  !.date_of_birth = Pick(data, "date_of_birth", @),
                  !.address.street = Pick(data, "address", @),
                  !.address.state = Pick(data, "state", @)]
    ELSE IF document.type = SOCIAL_SECURITY_CARD THEN
        [c EXCEPT !.social_security_number =
                      Pick(data, "social_security_number", @)]
    ELSE IF document.type = PROOF_OF_ADDRESS THEN
        [c EXCEPT !.address.street = Pick(data, "street", @),
                  !.address.city = Pick(data, "city", @),
                  !.address.state = Pick(data, "state", @),
                  !.address.zip_code = Pick(data, "zip_code", @)]
    ELSE IF document.type = EMPLOYMENT_VERIFICATION THEN
        [c EXCEPT !.employment_info.employer = Pick(data, "employer", @),
                  !.employment_info.position = Pick(data, "position", @),
                  !.employment_info.annual_income =
                      IF Truthy(Get(data, "salary")) /\ FloatParses(data.salary)
                          THEN FloatOf(data.salary) ELSE @,
                  !.employment_info.employment_start_date =
                      Pick(data, "start_date", @)]
    ELSE c

\* one iteration of the loop over the documents
FoldDocument(c, document) ==
    LET data == document.extracted_data IN
    IF document.type = DRIVERS_LICENSE \/ document.type = PASSPORT THEN
        [c EXCEPT !.first_name = Pick(data, "first_name", @),
                  !.last_name = Pick(data, "last_name", @),
                  !.date_of_birth = Pick(data, "date_of_birth", @),
                  !.address.street = Pick(data, "address", @)]
    ELSE IF document.type = SOCIAL_SECURITY_CARD THEN
        [c EXCEPT !.social_security_number =
                      Pick(data, "social_security_number", @)]
    ELSE IF document.type = PROOF_OF_ADDRESS THEN
        [c EXCEPT !.address.street = Pick(data, "street", @),
                  !.address.city = Pick(data, "city", @),
                  !.address.state = Pick(data, "state", @),
                  !.address.zip_code = Pick(data, "zip_code", @)]
    ELSE IF document.type = EMPLOYMENT_VERIFICATION THEN
        [c EXCEPT !.employment_info.employer = Pick(data, "employer", @),
                  !.employment_info.position = Pick(data, "position", @),
                  !.employment_info.annual_income =
                      IF Truthy(Get(data, "salary")) /\ FloatParses(data.salary)
                          THEN FloatOf(data.salary) ELSE @,
                  !.employment_info.employment_start_date =
                      Pick(data, "start_date", @)]
    ELSE c

\* a loop that visits the documents from the last to the first
RECURSIVE FoldDocumentsReversed(_, _, _)
FoldDocumentsReversed(c, docs, i) ==
    IF i > Len(docs) THEN c
    ELSE FoldDocument(FoldDocumentsReversed(c, docs, i + 1), docs[i])

\* a loop that folds the verified documents only
RECURSIVE FoldVerifiedOnly(_, _, _)
FoldVerifiedOnly(c, docs, i) ==
    IF i > Len(docs) THEN c
    ELSE IF docs[i].verification_status = VS_VERIFIED
        THEN FoldVerifiedOnly(FoldDocument(c, docs[i]), docs, i + 1)
    ELSE FoldVerifiedOnly(c, docs, i + 1)

RECURSIVE FoldDocuments(_, _, _)
FoldDocuments(c, docs, i) ==
    IF i > Len(docs) THEN c
    ELSE FoldDocuments(FoldDocument(c, docs[i]), docs, i + 1)

PLACEHOLDER_EMAIL == "customer@example.com"
PLACEHOLDER_PHONE == "555-0123"

\* a compile that returns the folded data as they are
CompileWithoutPlaceholders(docs, id) ==
    FoldDocuments(EmptyCustomer(id, docs), docs, 1)

_compile_customer_data(docs, id) ==
    LET folded == FoldDocuments(EmptyCustomer(id, docs), docs, 1) IN
    [folded EXCEPT
        !.email = IF ~Truthy(@) THEN PLACEHOLDER_EMAIL ELSE @,
        !.phone_number = IF ~Truthy(@) THEN PLACEHOLDER_PHONE ELSE @]

(***************************************************************************)
(* BankAccountTool (src/tools/bank_account_tool.py) over the Firestore     *)
(* collection: set() writes the record under its key whether or not one is *)
(* there, update() fails when no record is stored under the key; either    *)
(* call fails when the store cannot be reached or rejects the write.       *)
(* created_at / last_modified are wall-clock stamps and are left out.      *)
(***************************************************************************)
\* the numbers _generate_account_number can return: six digits of the
\* clock followed by a random number in 1000..9999
AccountNumbers == {"4821071000", "4821079999"}

StoreWriteError == "503 store unavailable"

\* an account that is opened active
AccountOpenedActive(account_number, customer_id, account_type) ==
    [account_number |-> account_number,
     account_type   |-> account_type,
     customer_id    |-> customer_id,
     balance        |-> 0,
     status         |-> AS_ACTIVE]

NewBankAccount(account_number, customer_id, account_type) ==
    [account_number |-> account_number,
     account_type   |-> account_type,
     customer_id    |-> customer_id,
     balance        |-> 0,
     status         |-> AS_PENDING]

StorePut(st, key, record) ==
    [k \in DOMAIN st \cup {key} |-> IF k = key THEN record ELSE st[k]]

create_account(st, customer_id, account_type, account_number, write_ok) ==
    LET acct == NewBankAccount(account_number, customer_id, account_type) IN
    IF write_ok
        THEN [raised |-> FALSE, error |-> None, value |-> <<acct>>,
              store |-> StorePut(st, account_number, acct)]
        ELSE [raised |-> TRUE, error |-> StoreWriteError, value |-> << >>,
              store |-> st]

StoreUpdateError == "404 no document to update"

\* an update whose failure is not caught: the exception leaves the call
UpdateStatusUncaught(st, account_number, status, write_ok) ==
    IF write_ok /\ account_number \in DOMAIN st
        THEN [raised |-> FALSE, error |-> None, value |-> TRUE,
              store |-> [st EXCEPT ![account_number].status = status]]
        ELSE [raised |-> TRUE, error |-> StoreUpdateError, value |-> FALSE,
              store |-> st]

\* try: doc_ref.update(...); return True / except Exception: return False
update_account_status(st, account_number, status, write_ok) ==
    IF write_ok /\ account_number \in DOMAIN st
        THEN [raised |-> FALSE, error |-> None, value |-> TRUE,
              store |-> [st EXCEPT ![account_number].status = status]]
        ELSE [raised |-> FALSE, error |-> None, value |-> FALSE,
              store |-> st]

\* AccountCreationAgent.activate_account
activate_account(st, account_number, write_ok) ==
    update_account_status(st, account_number, AS_ACTIVE, write_ok)

(***************************************************************************)
(* The batches: files a caller can upload (filenames of demo.py and a few  *)
(* more) together with what the extraction service answers for them.       *)
(***************************************************************************)
FN_license == <<"j","o","h","n","_","d","o","e","_","d","r","i","v","e","r","s","_","l","i","c","e","n","s","e",".","p","d","f">>
FN_ssn == <<"j","o","h","n","_","d","o","e","_","s","s","n","_","c","a","r","d",".","j","p","g">>
FN_bill == <<"u","t","i","l","i","t","y","_","b","i","l","l",".","p","d","f">>
FN_address == <<"A","d","d","r","e","s","s","_","P","r","o","o","f",".","P","D","F">>
FN_pay == <<"p","a","y","_","s","t","u","b",".","p","d","f">>
FN_salary == <<"s","a","l","a","r","y","_","l","e","t","t","e","r",".","p","d","f">>
FN_passport == <<"P","a","s","s","p","o","r","t","_","S","c","a","n",".","p","n","g">>
FN_bank == <<"b","a","n","k","_","s","t","a","t","e","m","e","n","t",".","p","d","f">>
FN_other == <<"s","c","a","n","_","0","0","1",".","p","d","f">>

File(filename, entities) ==
    [shape |-> "ok", filename |-> filename,
     content |-> [service_ok |-> TRUE, entities |-> entities]]

F_license ==
    File(FN_license,
         [license_number |-> "D1234567", first_name |-> "John",
          last_name |-> "Doe", date_of_birth |-> "1990-05-15",
          address |-> "123 Main St", state |-> "CA"])

F_passport_nonumber ==
    File(FN_passport,
         [given_names |-> "Jon", surname |-> "Doe",
          date_of_birth |-> "1990-05-15"])

F_ssn == File(FN_ssn, [ssn |-> "123-45-6789", first_name |-> "John",
                       last_name |-> "Doe"])

F_bill ==
    File(FN_bill,
         [street_address |-> "123 Main St", city |-> "Anytown",
          state |-> "CA", zip_code |-> "90210"])

F_bill_nozip ==
    File(FN_address,
         [street_address |-> "9 Elm Rd", city |-> "Anytown", state |-> "CA"])

F_pay ==
    File(FN_pay,
         [employer |-> "Acme", position |-> "Engineer", salary |-> "75000",
          start_date |-> "2020-01-01"])

F_salary_negative ==
    File(FN_salary,
         [employer |-> "Acme", position |-> "Engineer", salary |-> "-1200"])

F_bank == File(FN_bank, [bank_name |-> "First Bank", balance |-> "100"])

\* the extraction service fails on this file
F_unreadable ==
    [shape |-> "ok", filename |-> FN_other,
     content |-> [service_ok |-> FALSE, entities |-> EmptyDict]]

F_no_content ==
    [shape |-> "no_content", filename |-> FN_other,
     content |-> [service_ok |-> FALSE, entities |-> EmptyDict]]

F_no_filename ==
    [shape |-> "no_filename", filename |-> << >>,
     content |-> [service_ok |-> FALSE, entities |-> EmptyDict]]

Catalog == {F_license, F_passport_nonumber, F_ssn, F_bill, F_bill_nozip,
            F_pay, F_salary_negative, F_bank, F_unreadable, F_no_content,
            F_no_filename}

Batches == UNION {[1..n -> Catalog] : n \in 0..MaxFiles}

(***************************************************************************)
(* CoordinatorAgent.process_new_customer                                   *)
(***************************************************************************)
ProcessingResult(status, message, c, account, docs, error) ==
    [status |-> status, message |-> message, customer_data |-> c,
     bank_account |-> account, documents |-> docs, error |-> error]

\* except Exception as e: return ProcessingResult(status="error", ...)
NoExceptHandler(e) == [raised |-> TRUE, result |-> << >>]

ExceptHandler(e) ==
    [raised |-> FALSE,
     result |-> << ProcessingResult("error",
                       "An error occurred during the onboarding process",
                       << >>, << >>, << >>, e) >>]

\* if not scanned_documents: return ProcessingResult(...)
ScanFailedMessageOnly ==
    ProcessingResult("error", "Document scanning failed",
                     << >>, << >>, << >>, None)

ScanFailedResult ==
    ProcessingResult("error", "No documents could be processed",
                     << >>, << >>, << >>, "Document scanning failed")

\* if not is_customer_valid: return ProcessingResult(...)
ValidationFailedWithoutData(c, docs) ==
    ProcessingResult("validation_failed", "Customer data validation failed",
                     << >>, << >>, << >>, None)

ValidationFailedResult(c, docs) ==
    ProcessingResult("validation_failed", "Customer data validation failed",
                     <<c>>, << >>, <<docs>>, None)

\* the account is created when the compiled profile is valid
CreateOnlyWhenVerified(c, docs) ==
    /\ validate_customer_data(c)
    /\ \A i \in 1..Len(docs) : docs[i].verification_status = VS_VERIFIED

ProceedsToCreate(c, docs) == validate_customer_data(c)

\* all(doc.verification_status == VERIFIED for doc in validated_documents)
AnyDocumentVerified(docs) ==
    \E i \in 1..Len(docs) : docs[i].verification_status = VS_VERIFIED

all_documents_verified(docs) ==
    \A i \in 1..Len(docs) : docs[i].verification_status = VS_VERIFIED

FinalResult(status, message, c, account, docs) ==
    ProcessingResult(status, message, <<c>>, <<account>>, <<docs>>, None)

Stage(name) == trace' = Append(trace, name)

Return(r) ==
    /\ result' = <<r>>
    /\ raised' = FALSE
    /\ exc' = exc
    /\ pc' = "done"

\* an exception with message e reaches the except clause
Fail(e) ==
    /\ exc' = e
    /\ result' = ExceptHandler(e).result
    /\ raised' = ExceptHandler(e).raised
    /\ pc' = "done"

Init ==
    /\ pc = "idle"
    /\ files = << >>
    /\ documents = << >>
    /\ customer_data = << >>
    /\ bank_account = << >>
    /\ result = << >>
    /\ raised = FALSE
    /\ exc = None
    /\ store = EmptyDict
    /\ store0 = EmptyDict
    /\ runs = 0
    /\ trace = << >>
    /\ fn_in = << >>
    /\ fn_out = None

\* a caller hands a batch to process_new_customer
Start ==
    /\ pc = "idle"
    /\ runs < MaxRuns
    /\ \E batch \in Batches : files' = batch
    /\ runs' = runs + 1
    /\ pc' = "scan"
    /\ documents' = << >>
    /\ customer_data' = << >>
    /\ bank_account' = << >>
    /\ result' = << >>
    /\ raised' = FALSE
    /\ exc' = None
    /\ store0' = store
    /\ trace' = << >>
    /\ UNCHANGED <<store, fn_in, fn_out>>

\* Step 1: scan and extract
Scan ==
    /\ pc = "scan"
    /\ Stage("scan")
    /\ LET scanned == scan_documents(files, runs) IN
         IF scanned.raised THEN
             /\ Fail(scanned.error)
             /\ UNCHANGED documents
         ELSE IF scanned.value = << >> THEN
             /\ Return(ScanFailedResult)
             /\ UNCHANGED documents
         ELSE
             /\ documents' = scanned.value
             /\ pc' = "validate_documents"
             /\ UNCHANGED <<result, raised, exc>>
    /\ UNCHANGED <<files, customer_data, bank_account, store, store0, runs,
                   fn_in, fn_out>>

\* Step 2: validate the documents
ValidateDocuments ==
    /\ pc = "validate_documents"
    /\ Stage("validate_documents")
    /\ documents' = validate_documents(documents)
    /\ pc' = "compile"
    /\ UNCHANGED <<files, customer_data, bank_account, result, raised, exc,
                   store, store0, runs, fn_in, fn_out>>

\* a step 3 that goes back to step 2 once it has compiled
CompileAndRevalidate ==
    /\ pc = "compile"
    /\ Stage("compile")
    /\ customer_data' = << _compile_customer_data(documents, runs) >>
    /\ pc' = "validate_documents"
    /\ UNCHANGED <<files, documents, bank_account, result, raised, exc,
                   store, store0, runs, fn_in, fn_out>>

\* Step 3: compile the customer data
Compile ==
    /\ pc = "compile"
    /\ Stage("compile")
    /\ customer_data' = << _compile_customer_data(documents, runs) >>
    /\ pc' = "validate_customer"
    /\ UNCHANGED <<files, documents, bank_account, result, raised, exc,
                   store, store0, runs, fn_in, fn_out>>

\* Step 4: validate the compiled customer data
ValidateCustomer ==
    /\ pc = "validate_customer"
    /\ Stage("validate_customer")
    /\ IF ProceedsToCreate(customer_data[1], documents) THEN
           /\ pc' = "create_account"
           /\ UNCHANGED <<result, raised, exc>>
       ELSE
           Return(ValidationFailedResult(customer_data[1], documents))
    /\ UNCHANGED <<files, documents, customer_data, bank_account, store,
                   store0, runs, fn_in, fn_out>>

\* Step 5: create the bank account
CreateAccount ==
    /\ pc = "create_account"
    /\ Stage("create_account")
    /\ \E account_number \in AccountNumbers, write_ok \in BOOLEAN :
         LET created == create_account(store, customer_data[1].id, CHECKING,
                                       account_number, write_ok) IN
           IF created.raised THEN
               /\ Fail(created.error)
               /\ UNCHANGED <<bank_account, store>>
           ELSE
               /\ bank_account' = created.value
               /\ store' = created.store
               /\ pc' = "created"
               /\ UNCHANGED <<result, raised, exc>>
    /\ UNCHANGED <<files, documents, customer_data, store0, runs, fn_in,
                   fn_out>>

\* Step 6, every document verified: activate the account
Activate ==
    /\ pc = "created"
    /\ all_documents_verified(documents)
    /\ Stage("activate_account")
    /\ \E write_ok \in BOOLEAN :
         LET activated == activate_account(store,
                              bank_account[1].account_number, write_ok) IN
           /\ store' = activated.store
           /\ IF activated.raised THEN Fail(activated.error)
              ELSE Return(FinalResult("completed",
                              "Account created and activated successfully",
                              customer_data[1], bank_account[1], documents))
    /\ UNCHANGED <<files, documents, customer_data, bank_account, store0,
                   runs, fn_in, fn_out>>

\* Step 6, some document not verified: the account stays pending
AwaitVerification ==
    /\ pc = "created"
    /\ ~all_documents_verified(documents)
    /\ Stage("await_verification")
    /\ Return(FinalResult("pending_verification",
                          "Account created, pending document verification",
                          customer_data[1], bank_account[1], documents))
    /\ UNCHANGED <<files, documents, customer_data, bank_account, store,
                   store0, runs, fn_in, fn_out>>

\* the caller has taken the result; the coordinator is free for a new batch
Finish ==
    /\ pc = "done"
    /\ pc' = "idle"
    /\ files' = << >>
    /\ documents' = << >>
    /\ customer_data' = << >>
    /\ bank_account' = << >>
    /\ result' = << >>
    /\ raised' = FALSE
    /\ exc' = None
    /\ trace' = << >>
    /\ store0' = store
    /\ UNCHANGED <<store, runs, fn_in, fn_out>>

Next ==
    \/ Start
    \/ Finish
    \/ Scan
    \/ ValidateDocuments
    \/ Compile
    \/ ValidateCustomer
    \/ CreateAccount
    \/ Activate
    \/ AwaitVerification

Spec == Init /\ [][Next]_vars

(***************************************************************************)
(* _identify_document_type on its own: filenames built of at most          *)
(* MaxTokens chunks (the keywords, in lower, upper and mixed case, and     *)
(* pieces that form a keyword only when put together)                      *)
(***************************************************************************)
Chunks ==
    {KW_license, KW_dl, KW_driver, KW_passport, KW_ssn, KW_social,
     KW_security, KW_address, KW_utility, KW_bill, KW_employment, KW_pay,
     KW_salary, KW_bank, KW_statement,
     <<"P","A","S","S","P","O","R","T">>, <<"P","a","s","s">>,
     <<"P","O","R","T">>, <<"L","I","C","E","N","S","E">>,
     <<"B","a","n","k">>, <<"D","L">>, <<"h","a","n">>, <<"d","l","e">>,
     <<"x">>, <<"_">>, <<".","p","d","f">>}

RECURSIVE Names(_)
Names(n) ==
    IF n = 0 THEN {<< >>}
    ELSE LET shorter == Names(n - 1) IN
         shorter \cup {p \o c : p \in shorter, c \in Chunks}

InitClassify ==
    /\ pc = "idle"
    /\ files = << >>
    /\ documents = << >>
    /\ customer_data = << >>
    /\ bank_account = << >>
    /\ result = << >>
    /\ raised = FALSE
    /\ exc = None
    /\ store = EmptyDict
    /\ store0 = EmptyDict
    /\ runs = 0
    /\ trace = << >>
    /\ fn_in \in Names(MaxTokens)
    /\ fn_out = None

Classify ==
    /\ fn_out = None
    /\ fn_out' = _identify_document_type(fn_in)
    /\ UNCHANGED <<pipeline_vars, fn_in>>

SpecClassify == InitClassify /\ [][Classify]_vars

(***************************************************************************)
(* _compile_customer_data on its own: sequences of at most MaxFiles        *)
(* scanned and validated documents, in every order.  The extracted data    *)
(* have the keys the parsers of DocumentProcessor produce; a missing       *)
(* entity is None, and a few documents carry empty strings.                *)
(***************************************************************************)
IdlePipeline ==
    /\ pc = "idle"
    /\ files = << >>
    /\ documents = << >>
    /\ customer_data = << >>
    /\ bank_account = << >>
    /\ result = << >>
    /\ raised = FALSE
    /\ exc = None
    /\ store = EmptyDict
    /\ store0 = EmptyDict
    /\ runs = 0
    /\ trace = << >>

Doc(type, extracted_data) ==
    [id                  |-> <<0, 0>>,
     type                |-> type,
     file_name           |-> << >>,
     extracted_data      |-> extracted_data,
     verification_status |-> VS_PENDING]

CompileDocs ==
    {Doc(DRIVERS_LICENSE, _parse_drivers_license(F_license.content.entities)),
     Doc(DRIVERS_LICENSE, _parse_drivers_license([first_name |-> "Jon"])),
     Doc(DRIVERS_LICENSE, EmptyDict),
     Doc(PASSPORT,
         _parse_passport([passport_number |-> "X1234567",
                          given_names |-> "Jane", surname |-> "Roe",
                          date_of_birth |-> "1985-01-01"])),
     Doc(SOCIAL_SECURITY_CARD, _parse_ssn(F_ssn.content.entities)),
     Doc(SOCIAL_SECURITY_CARD, _parse_ssn([ssn |-> "123456789"])),
     Doc(PROOF_OF_ADDRESS, _parse_address(F_bill.content.entities)),
     Doc(PROOF_OF_ADDRESS,
         _parse_address([street_address |-> "9 Elm Rd",
                         city |-> "Otherville"])),
     Doc(PROOF_OF_ADDRESS,
         [street |-> "", city |-> "", state |-> "NY", zip_code |-> "10001",
          country |-> None]),
     Doc(EMPLOYMENT_VERIFICATION, _parse_employment(F_pay.content.entities)),
     Doc(EMPLOYMENT_VERIFICATION,
         _parse_employment([employer |-> "Globex", salary |-> "n/a"])),
     Doc(EMPLOYMENT_VERIFICATION,
         _parse_employment([position |-> "Clerk", salary |-> "-1200"])),
     Doc(BANK_STATEMENT, _parse_bank_statement(F_bank.content.entities))}

\* the documents as step 2 hands them to step 3: numbered and validated
CompileInputs ==
    {validate_documents([i \in 1..Len(s) |-> [s[i] EXCEPT !.id = <<0, i>>]]) :
        s \in UNION {[1..n -> CompileDocs] : n \in 0..MaxFiles}}

InitCompile ==
    /\ IdlePipeline
    /\ fn_in \in CompileInputs
    /\ fn_out = << >>

CompileCall ==
    /\ fn_out = << >>
    /\ fn_out' = << _compile_customer_data(fn_in, 1) >>
    /\ UNCHANGED <<pipeline_vars, fn_in>>

SpecCompile == InitCompile /\ [][CompileCall]_vars

(***************************************************************************)
(* validate_customer_data on its own: customer data with every text field  *)
(* either filled or empty, an income that is negative, zero or positive,   *)
(* and no document or one.                                                 *)
(***************************************************************************)
ProfileTextFields ==
    {"first_name", "last_name", "date_of_birth", "social_security_number",
     "email", "phone_number", "street", "city", "state", "zip_code",
     "employer", "position"}

ProfileIncomes == {0 - 1200, 0, 75000}

Text(filled, value) == IF filled THEN value ELSE ""

MakeCustomer(filled, annual_income, docs) ==
    [id                     |-> 1,
     first_name             |-> Text(filled["first_name"], "John"),
     last_name              |-> Text(filled["last_name"], "Doe"),
     date_of_birth          |-> Text(filled["date_of_birth"], "1990-05-15"),
     social_security_number |->
         Text(filled["social_security_number"], "123-45-6789"),
     address                |->
         [street   |-> Text(filled["street"], "123 Main St"),
          city     |-> Text(filled["city"], "Anytown"),
          state    |-> Text(filled["state"], "CA"),
          zip_code |-> Text(filled["zip_code"], "90210"),
          country  |-> "USA"],
     phone_number           |-> Text(filled["phone_number"], PLACEHOLDER_PHONE),
     email                  |-> Text(filled["email"], PLACEHOLDER_EMAIL),
     employment_info        |->
         [employer              |-> Text(filled["employer"], "Acme"),
          position              |-> Text(filled["position"], "Engineer"),
          annual_income         |-> annual_income,
          employment_start_date |-> "2020-01-01"],
     documents              |-> docs]

ProfileInputs ==
    {MakeCustomer(filled, annual_income, docs) :
        filled \in [ProfileTextFields -> BOOLEAN],
        annual_income \in ProfileIncomes,
        docs \in {<< >>, << Doc(BANK_STATEMENT, EmptyDict) >>}}

InitProfile ==
    /\ IdlePipeline
    /\ fn_in \in ProfileInputs
    /\ fn_out = << >>

ValidateProfileCall ==
    /\ fn_out = << >>
    /\ fn_out' = << validate_customer_data(fn_in) >>
    /\ UNCHANGED <<pipeline_vars, fn_in>>

SpecProfile == InitProfile /\ [][ValidateProfileCall]_vars

(***************************************************************************)
(* validate_document and _validate_ssn on their own.  The extracted data   *)
(* of a document are dicts over the keys its check reads, every key        *)
(* missing, None, empty or filled; the data of a social security card      *)
(* carry the social security numbers of the model.                         *)
(***************************************************************************)
DictsOver(keys, values) == UNION {[D -> values] : D \in SUBSET keys}

FieldValues == {None, "", "x"}

SsnStrings ==
    {"123-45-6789", "123456789", "12-345-6789", "123-45-678", "123-45-67890",
     "1234567890", "123 45 6789", "abc-de-fghi", "123456789\n",
     "123-45-6789\n", "123-456789", "12345-6789", " 123456789", ""}

SsnDicts ==
    {[k \in D \cup E |->
        IF k = "social_security_number" THEN number ELSE name] :
        D \in SUBSET {"social_security_number"},
        E \in SUBSET {"first_name", "last_name"},
        number \in SsnStrings \cup {None},
        name \in {None, "John"}}

DocumentInputs ==
    {Doc(DRIVERS_LICENSE, d) :
        d \in DictsOver({"license_number", "first_name", "last_name",
                         "date_of_birth"}, FieldValues)}
    \cup {Doc(PASSPORT, d) :
        d \in DictsOver({"passport_number", "first_name", "last_name",
                         "date_of_birth"}, FieldValues)}
    \cup {Doc(PROOF_OF_ADDRESS, d) :
        d \in DictsOver({"street", "city", "state", "zip_code"}, FieldValues)}
    \cup {Doc(EMPLOYMENT_VERIFICATION, d) :
        d \in DictsOver({"employer", "position", "salary"}, FieldValues)}
    \cup {Doc(BANK_STATEMENT, d) :
        d \in DictsOver({"bank_name", "balance"}, FieldValues)}
    \cup {Doc(SOCIAL_SECURITY_CARD, d) : d \in SsnDicts}

InitDocument ==
    /\ IdlePipeline
    /\ fn_in \in DocumentInputs
    /\ fn_out = << >>

ValidateDocumentCall ==
    /\ fn_out = << >>
    /\ fn_out' = << validate_document(fn_in) >>
    /\ UNCHANGED <<pipeline_vars, fn_in>>

SpecDocument == InitDocument /\ [][ValidateDocumentCall]_vars

InitSsn ==
    /\ IdlePipeline
    /\ fn_in \in SsnDicts
    /\ fn_out = << >>

ValidateSsnCall ==
    /\ fn_out = << >>
    /\ fn_out' = << _validate_ssn(fn_in) >>
    /\ UNCHANGED <<pipeline_vars, fn_in>>

SpecSsn == InitSsn /\ [][ValidateSsnCall]_vars

(***************************************************************************)
(* activate_account on its own: stores holding none, one or both of the    *)
(* account numbers in any status, an account number that may be absent,    *)
(* and a store that takes the update or fails.                             *)
(***************************************************************************)
UnknownAccountNumber == "0000000000"

StoredAccount(account_number, status) ==
    [NewBankAccount(account_number, 1, CHECKING) EXCEPT !.status = status]

Stores ==
    {[n \in D |-> StoredAccount(n, status[n])] :
        D \in SUBSET AccountNumbers, status \in [AccountNumbers -> AccountStatus]}

ActivateInputs ==
    [store : Stores,
     account_number : AccountNumbers \cup {UnknownAccountNumber},
     write_ok : BOOLEAN]

InitActivate ==
    /\ IdlePipeline
    /\ fn_in \in ActivateInputs
    /\ fn_out = << >>

ActivateCall ==
    /\ fn_out = << >>
    /\ fn_out' = << activate_account(fn_in.store, fn_in.account_number,
                                     fn_in.write_ok) >>
    /\ UNCHANGED <<pipeline_vars, fn_in>>

SpecActivate == InitActivate /\ [][ActivateCall]_vars

(***************************************************************************)
(* Steps 2 to 4 of process_new_customer and the gate of step 6 as a        *)
(* function of the scanned documents: validate the documents, compile,     *)
(* validate the customer data; the account is created when the customer    *)
(* data are valid and activated when moreover every document is verified.  *)
(* The batches have at most MaxDocs documents, most of them documents the  *)
(* validation rejects.                                                     *)
(***************************************************************************)
ProvisionDocs ==
    {Doc(DRIVERS_LICENSE, _parse_drivers_license(F_license.content.entities)),
     Doc(DRIVERS_LICENSE,
         _parse_drivers_license([first_name |-> "Jon", last_name |-> "Doe",
                                 date_of_birth |-> "1990-05-15",
                                 address |-> "5 Oak Ave"])),
     Doc(SOCIAL_SECURITY_CARD, _parse_ssn(F_ssn.content.entities)),
     Doc(PROOF_OF_ADDRESS, _parse_address(F_bill.content.entities)),
     Doc(PROOF_OF_ADDRESS,
         _parse_address([street_address |-> "9 Elm Rd",
                         city |-> "Otherville"])),
     Doc(PROOF_OF_ADDRESS,
         [street |-> "", city |-> "", state |-> "NY", zip_code |-> "10001",
          country |-> None]),
     Doc(PROOF_OF_ADDRESS,
         _parse_address([city |-> "Anytown", state |-> "CA",
                         zip_code |-> "90210"])),
     Doc(EMPLOYMENT_VERIFICATION, _parse_employment(F_pay.content.entities)),
     Doc(EMPLOYMENT_VERIFICATION,
         _parse_employment([employer |-> "Globex", salary |-> "n/a"])),
     Doc(EMPLOYMENT_VERIFICATION,
         _parse_employment([position |-> "Clerk", salary |-> "75000"]))}

ProvisionInputs ==
    {[i \in 1..Len(s) |-> [s[i] EXCEPT !.id = <<0, i>>]] :
        s \in UNION {[1..n -> ProvisionDocs] : n \in 1..MaxDocs}}

InitProvision ==
    /\ IdlePipeline
    /\ fn_in \in ProvisionInputs
    /\ fn_out = << >>

ProvisionCall ==
    /\ fn_out = << >>
    /\ LET validated_documents == validate_documents(fn_in)
           compiled_customer_data ==
               _compile_customer_data(validated_documents, 1)
           creates ==
               ProceedsToCreate(compiled_customer_data, validated_documents)
       IN fn_out' = << [documents     |-> validated_documents,
                        customer_data |-> compiled_customer_data,
                        creates       |-> creates,
                        activates     |->
                            creates /\ all_documents_verified(validated_documents)] >>
    /\ UNCHANGED <<pipeline_vars, fn_in>>

SpecProvision == InitProvision /\ [][ProvisionCall]_vars

(***************************************************************************)
(* Properties                                                              *)
(***************************************************************************)
Done == pc = "done"

Returned == Done /\ result # << >>

DocIndices == 1..Len(documents)

AllVerified == \A i \in DocIndices : documents[i].verification_status = VS_VERIFIED

Count(seq, x) == Cardinality({i \in 1..Len(seq) : seq[i] = x})

\* C1 (scenario A): a batch of exactly three documents, a driver's license,
\* an SSN card and a utility bill, all of which pass document validation,
\* ends Completed with an Active bank account in the result.
ScenarioA ==
    /\ Len(files) = 3
    /\ Len(documents) = 3
    /\ {documents[i].type : i \in DocIndices} =
           {DRIVERS_LICENSE, SOCIAL_SECURITY_CARD, PROOF_OF_ADDRESS}
    /\ AllVerified

C1_ScenarioACompletes ==
    (Done /\ ScenarioA) =>
        /\ result # << >>
        /\ result[1].status = "completed"
        /\ result[1].bank_account # << >>
        /\ result[1].bank_account[1].status = AS_ACTIVE

\* C2: a result with status Completed carries a bank account whose status
\* is Active.
C2_CompletedCarriesActive ==
    (Returned /\ result[1].status = "completed") =>
        /\ result[1].bank_account # << >>
        /\ result[1].bank_account[1].status = AS_ACTIVE

\* C3: once the account is created the run ends Completed exactly when every
\* document is Verified; otherwise it ends PendingVerification, the account
\* is never activated and is Pending in the result and in the store.
C3_ActivationGate ==
    (Done /\ bank_account # << >>) =>
        /\ result # << >>
        /\ (result[1].status = "completed") <=> AllVerified
        /\ ~AllVerified =>
             /\ result[1].status = "pending_verification"
             /\ Count(trace, "activate_account") = 0
             /\ result[1].bank_account # << >>
             /\ result[1].bank_account[1].status = AS_PENDING
             /\ bank_account[1].account_number \in DOMAIN store
             /\ store[bank_account[1].account_number].status = AS_PENDING

C3_Witness ==
    /\ Done
    /\ bank_account # << >>
    /\ \E i \in DocIndices : documents[i].verification_status = VS_REJECTED
    /\ \E i \in DocIndices : documents[i].verification_status = VS_VERIFIED
    /\ result[1].status = "pending_verification"

\* C4: when the profile validation returns false the run ends
\* ValidationFailed, the result carries the compiled profile and the
\* documents with their statuses and no bank account, and the account store
\* is as it was when the run started (create_account never ran).
C4_ValidationFailed ==
    (Done /\ customer_data # << >> /\ ~validate_customer_data(customer_data[1])) =>
        /\ result # << >>
        /\ result[1].status = "validation_failed"
        /\ result[1].customer_data = customer_data
        /\ result[1].documents = <<documents>>
        /\ \A i \in DocIndices :
             documents[i].verification_status \in {VS_VERIFIED, VS_REJECTED}
        /\ result[1].bank_account = << >>
        /\ bank_account = << >>
        /\ Count(trace, "create_account") = 0
        /\ store = store0

C4_Witness ==
    /\ Returned
    /\ result[1].status = "validation_failed"
    /\ store # EmptyDict
    /\ \E i \in DocIndices : documents[i].verification_status = VS_VERIFIED

\* C5 as stated: when the scan yields no document the result has status
\* Error and the message "Document scanning failed", no profile, no account,
\* and no later stage ran.
ScanYieldsNothing ==
    /\ ~scan_documents(files, runs).raised
    /\ scan_documents(files, runs).value = << >>

C5_Original ==
    (Done /\ ScanYieldsNothing) =>
        /\ result # << >>
        /\ result[1].status = "error"
        /\ result[1].message = "Document scanning failed"
        /\ result[1].customer_data = << >>
        /\ result[1].bank_account = << >>
        /\ trace = <<"scan">>

\* C5 amended: when the scan yields no document the result has status Error,
\* the error detail "Document scanning failed" and the message "No documents
\* could be processed", no profile, no account, and no later stage ran.
C5_ScanFailed ==
    (Done /\ ScanYieldsNothing) =>
        /\ result # << >>
        /\ result[1].status = "error"
        /\ result[1].error = "Document scanning failed"
        /\ result[1].message = "No documents could be processed"
        /\ result[1].customer_data = << >>
        /\ result[1].bank_account = << >>
        /\ result[1].documents = << >>
        /\ trace = <<"scan">>
        /\ customer_data = << >>
        /\ bank_account = << >>
        /\ store = store0

C5_Witness == Done /\ files = << >> /\ result # << >> /\ runs = 2 /\ store # EmptyDict

\* C6: whenever the profile validation returns true, create_account is
\* invoked exactly once in the run, whatever the documents' statuses.
C6_CreateNotGated ==
    /\ Count(trace, "create_account") <= 1
    /\ (Done /\ customer_data # << >> /\ validate_customer_data(customer_data[1]))
           => Count(trace, "create_account") = 1

C6_Witness ==
    /\ Done
    /\ Count(trace, "create_account") = 1
    /\ \E i \in DocIndices : documents[i].verification_status = VS_REJECTED

FailedExtraction(i) == files[i].shape = "ok" /\ ~files[i].content.service_ok

C8_ExtractionFailureTolerated ==
    (/\ pc \notin {"idle", "scan"}
     /\ \E i \in 1..Len(files) : FailedExtraction(i)
     /\ \A i \in 1..Len(files) : files[i].shape # "no_filename") =>
        /\ \A i \in 1..Len(files) :
             files[i].shape = "ok" =>
               \E j \in DocIndices :
                 /\ documents[j].id = <<runs, i>>
                 /\ FailedExtraction(i) =>
                      /\ DOMAIN documents[j].extracted_data = {}
                      /\ pc # "validate_documents" =>
                           documents[j].verification_status = VS_REJECTED
        /\ (Done /\ exc = None) => (result # << >> /\ result[1].status # "error")

C8_Witness ==
    /\ Done
    /\ \E i \in 1..Len(files) : FailedExtraction(i)
    /\ Len(documents) >= 2
    /\ \E j \in DocIndices : documents[j].verification_status = VS_VERIFIED
    /\ result # << >>
    /\ result[1].status = "validation_failed"

\* C9: the kind returned for a filename is the kind of the first keyword
\* group, in the order license/dl/driver, passport, ssn/social/security,
\* address/utility/bill, employment/pay/salary, bank/statement, one of whose
\* keywords occurs in the lower-cased filename; DriversLicense when no group
\* matches.
KeywordGroups ==
    << [kind |-> DRIVERS_LICENSE, keywords |-> {KW_license, KW_dl, KW_driver}],
       [kind |-> PASSPORT, keywords |-> {KW_passport}],
       [kind |-> SOCIAL_SECURITY_CARD,
        keywords |-> {KW_ssn, KW_social, KW_security}],
       [kind |-> PROOF_OF_ADDRESS,
        keywords |-> {KW_address, KW_utility, KW_bill}],
       [kind |-> EMPLOYMENT_VERIFICATION,
        keywords |-> {KW_employment, KW_pay, KW_salary}],
       [kind |-> BANK_STATEMENT, keywords |-> {KW_bank, KW_statement}] >>

MatchingGroups(name) ==
    {g \in 1..Len(KeywordGroups) :
        \E k \in KeywordGroups[g].keywords : Contains(Lower(name), k)}

FirstMatchKind(name) ==
    LET m == MatchingGroups(name) IN
    IF m = {} THEN DRIVERS_LICENSE
    ELSE KeywordGroups[CHOOSE g \in m : \A h \in m : g <= h].kind

C9_FirstMatchWins ==
    fn_out # None =>
        /\ fn_out \in DocumentType
        /\ fn_out = FirstMatchKind(fn_in)

C9_Witness ==
    /\ fn_out = DRIVERS_LICENSE
    /\ Contains(Lower(fn_in), KW_bank)
    /\ Contains(fn_in, <<"L","I","C","E","N","S","E">>)

\* C10 as stated: every filename that contains "passport" in any letter
\* case is classified Passport.
C10_Original ==
    (fn_out # None /\ Contains(Lower(fn_in), KW_passport)) => fn_out = PASSPORT

\* C10 amended: every filename that contains "passport" in any letter case
\* and none of "license", "dl", "driver" is classified Passport.
C10_PassportUnlessLicense ==
    (/\ fn_out # None
     /\ Contains(Lower(fn_in), KW_passport)
     /\ ~AnyIn(Lower(fn_in), {KW_license, KW_dl, KW_driver})) => fn_out = PASSPORT

C10_Witness ==
    /\ fn_out = PASSPORT
    /\ fn_in # Lower(fn_in)
    /\ Contains(Lower(fn_in), KW_bank)


(***************************************************************************)
(* Compiling the customer data (SpecCompile)                               *)
(***************************************************************************)
Compiled == fn_out # << >>

\* the extracted field a document of the kind writes to the attribute
SourceKey(type, attr) ==
    IF type \in {DRIVERS_LICENSE, PASSPORT} THEN
        CASE attr \in {"first_name", "last_name", "date_of_birth"} -> attr
          [] attr = "street" -> "address"
          [] OTHER -> None
    ELSE IF type = SOCIAL_SECURITY_CARD THEN
        CASE attr = "social_security_number" -> attr
          [] OTHER -> None
    ELSE IF type = PROOF_OF_ADDRESS THEN
        CASE attr \in {"street", "city", "state", "zip_code"} -> attr
          [] OTHER -> None
    ELSE IF type = EMPLOYMENT_VERIFICATION THEN
        CASE attr \in {"employer", "position"} -> attr
          [] attr = "annual_income" -> "salary"
          [] attr = "employment_start_date" -> "start_date"
          [] OTHER -> None
    ELSE None

\* the value docs[i] has for the attribute, None when it has none
Supplied(docs, i, attr) ==
    LET key == SourceKey(docs[i].type, attr) IN
    IF key = None THEN None ELSE Get(docs[i].extracted_data, key)

Suppliers(docs, attr) ==
    {i \in 1..Len(docs) : Truthy(Supplied(docs, i, attr))}

Last(S) == CHOOSE m \in S : \A j \in S : j <= m

LastSupplied(docs, attr) ==
    IF Suppliers(docs, attr) = {} THEN ""
    ELSE Supplied(docs, Last(Suppliers(docs, attr)), attr)

AttrOf(p, attr) ==
    CASE attr = "first_name" -> p.first_name
      [] attr = "last_name" -> p.last_name
      [] attr = "date_of_birth" -> p.date_of_birth
      [] attr = "social_security_number" -> p.social_security_number
      [] attr = "street" -> p.address.street
      [] attr = "city" -> p.address.city
      [] attr = "state" -> p.address.state
      [] attr = "zip_code" -> p.address.zip_code
      [] attr = "employer" -> p.employment_info.employer
      [] attr = "position" -> p.employment_info.position
      [] attr = "employment_start_date" ->
             p.employment_info.employment_start_date

TextAttrs ==
    {"first_name", "last_name", "date_of_birth", "social_security_number",
     "street", "city", "state", "zip_code", "employer", "position",
     "employment_start_date"}

LastWriterText ==
    \A attr \in TextAttrs : AttrOf(fn_out[1], attr) = LastSupplied(fn_in, attr)

ParsingSuppliers(docs) ==
    {i \in Suppliers(docs, "annual_income") :
        FloatParses(Get(docs[i].extracted_data, "salary"))}

\* C11 as stated: every attribute documents map to, annual_income included,
\* has the value of the last document of a mapped kind whose field is
\* present and non-empty, and the empty value (0 for annual_income) when
\* there is no such document.
C11_Original ==
    Compiled =>
        /\ LastWriterText
        /\ LET S == Suppliers(fn_in, "annual_income")
               income == fn_out[1].employment_info.annual_income
           IN IF S = {} THEN income = 0
              ELSE /\ FloatParses(Get(fn_in[Last(S)].extracted_data, "salary"))
                   /\ income = FloatOf(Get(fn_in[Last(S)].extracted_data, "salary"))

\* C11: the compiled attributes are a last-writer-wins fold over the
\* documents in input order: every text attribute has the value of the last
\* document of a mapped kind whose field is present and non-empty ("" when
\* there is none), and annual_income is the parsed salary of the last
\* employment document whose salary is non-empty and parses as a number
\* (0 when there is none); a non-empty salary that does not parse leaves
\* the earlier value.
C11_LastWriterWins ==
    Compiled =>
        /\ LastWriterText
        /\ LET S == ParsingSuppliers(fn_in)
               income == fn_out[1].employment_info.annual_income
           IN IF S = {} THEN income = 0
              ELSE income = FloatOf(Get(fn_in[Last(S)].extracted_data, "salary"))

\* two salaries, the later one unparsable and without a position, after a
\* document with a position; a third document supplies a first name
C11_Witness ==
    /\ Compiled
    /\ Len(fn_in) = 3
    /\ Cardinality(Suppliers(fn_in, "annual_income")) = 2
    /\ Cardinality(ParsingSuppliers(fn_in)) = 1
    /\ Last(Suppliers(fn_in, "annual_income")) \notin ParsingSuppliers(fn_in)
    /\ fn_out[1].employment_info.annual_income = 75000
    /\ Cardinality(Suppliers(fn_in, "first_name")) = 1
    /\ fn_out[1].employment_info.position = "Engineer"
    /\ fn_out[1].employment_info.employer = "Globex"

ProofsOfAddress(docs) ==
    {i \in 1..Len(docs) : docs[i].type = PROOF_OF_ADDRESS}

TwoStreets(docs) ==
    /\ Cardinality(ProofsOfAddress(docs)) = 2
    /\ \A i \in ProofsOfAddress(docs) : Truthy(Get(docs[i].extracted_data, "street"))
    /\ \E i, j \in ProofsOfAddress(docs) :
           Get(docs[i].extracted_data, "street") # Get(docs[j].extracted_data, "street")

Earlier(S) == CHOOSE m \in S : \A j \in S : m <= j

Swap(docs, i, j) ==
    [k \in 1..Len(docs) |->
        IF k = i THEN docs[j] ELSE IF k = j THEN docs[i] ELSE docs[k]]

\* C12 as stated: with two proof-of-address documents of different streets
\* in the batch, the compiled street is the street of the later one.
C12_Original ==
    Compiled /\ TwoStreets(fn_in) =>
        fn_out[1].address.street =
            Get(fn_in[Last(ProofsOfAddress(fn_in))].extracted_data, "street")

NoLaterIdAddress(docs) ==
    \A k \in 1..Len(docs) :
        k > Last(ProofsOfAddress(docs))
            /\ docs[k].type \in {DRIVERS_LICENSE, PASSPORT}
        => ~Truthy(Get(docs[k].extracted_data, "address"))

\* C12: with two proof-of-address documents of different streets in the
\* batch and no driver's license or passport with an address after the
\* later one, the compiled street is the street of the later one, and
\* compiling the batch with the two documents swapped gives the other
\* street.
C12_LaterStreetWins ==
    Compiled /\ TwoStreets(fn_in) /\ NoLaterIdAddress(fn_in) =>
        LET P == ProofsOfAddress(fn_in)
            swapped == _compile_customer_data(Swap(fn_in, Earlier(P), Last(P)), 1)
        IN /\ fn_out[1].address.street = Get(fn_in[Last(P)].extracted_data, "street")
           /\ swapped.address.street = Get(fn_in[Earlier(P)].extracted_data, "street")
           /\ swapped.address.street # fn_out[1].address.street

\* a driver's license with an address first, then the two bills
C12_Witness ==
    /\ Compiled
    /\ Len(fn_in) = 3
    /\ TwoStreets(fn_in)
    /\ fn_in[1].type = DRIVERS_LICENSE
    /\ Truthy(Get(fn_in[1].extracted_data, "address"))
    /\ Get(fn_in[3].extracted_data, "street") = "9 Elm Rd"
    /\ fn_out[1].address.street = "9 Elm Rd"

(***************************************************************************)
(* Validating the customer data (SpecProfile)                              *)
(***************************************************************************)
PersonalFilled(p) ==
    /\ p.first_name # "" /\ p.last_name # "" /\ p.date_of_birth # ""
    /\ p.email # "" /\ p.phone_number # ""

AddressFilled(p) ==
    /\ p.address.street # "" /\ p.address.city # ""
    /\ p.address.state # "" /\ p.address.zip_code # ""

EmploymentFilled(p) ==
    /\ p.employment_info.employer # "" /\ p.employment_info.position # ""
    /\ p.employment_info.annual_income > 0

\* what is missing of the things the four checks look at
Missing(p) ==
    {a \in {"first_name", "last_name", "date_of_birth", "street", "city",
            "state", "zip_code", "employer", "position"} : AttrOf(p, a) = ""}
    \cup (IF p.email = "" THEN {"email"} ELSE {})
    \cup (IF p.phone_number = "" THEN {"phone_number"} ELSE {})
    \cup (IF p.employment_info.annual_income > 0 THEN {} ELSE {"annual_income"})
    \cup (IF p.documents = << >> THEN {"documents"} ELSE {})

\* C13: validate_customer_data is true exactly when the personal fields,
\* the address fields, employer, position and a positive annual income are
\* there and the list of documents is non-empty; a profile that lacks
\* exactly one of these is not valid.
C13_ValidateProfile ==
    fn_out # << >> =>
        /\ fn_out[1] = (/\ PersonalFilled(fn_in) /\ AddressFilled(fn_in)
                        /\ EmploymentFilled(fn_in) /\ fn_in.documents # << >>)
        /\ Cardinality(Missing(fn_in)) = 1 => fn_out[1] = FALSE
        /\ Missing(fn_in) = {} => fn_out[1] = TRUE

\* a profile that lacks nothing but a positive income, found not valid
C13_Witness ==
    /\ fn_out = << FALSE >>
    /\ Missing(fn_in) = {"annual_income"}
    /\ fn_in.employment_info.annual_income = 0

(***************************************************************************)
(* Validating one document (SpecDocument) and the social security number   *)
(* (SpecSsn)                                                               *)
(***************************************************************************)
\* three digits, a hyphen, two digits, a hyphen, four digits; or nine digits
WellFormedSsn(c) ==
    \/ /\ Len(c) = 11
       /\ \A i \in {1, 2, 3, 5, 6, 8, 9, 10, 11} : c[i] \in Digits
       /\ c[4] = "-" /\ c[7] = "-"
    \/ /\ Len(c) = 9
       /\ \A i \in 1..9 : c[i] \in Digits

HasWellFormedSsn(data) ==
    /\ "social_security_number" \in DOMAIN data
    /\ data.social_security_number # None
    /\ WellFormedSsn(Chars(data.social_security_number))

RequiredFields(type) ==
    CASE type = DRIVERS_LICENSE ->
             {"license_number", "first_name", "last_name", "date_of_birth"}
      [] type = PASSPORT ->
             {"passport_number", "first_name", "last_name", "date_of_birth"}
      [] type = PROOF_OF_ADDRESS -> {"street", "city", "state", "zip_code"}
      [] type = EMPLOYMENT_VERIFICATION -> {"employer", "position"}
      [] OTHER -> {}

\* C14: validate_document is false for an empty mapping of extracted data,
\* whatever the kind; for a non-empty mapping it is true exactly when the
\* kind's required fields are all present and non-empty, for a social
\* security card exactly when the social security number is well-formed,
\* and always for a bank statement.
C14_ValidateDocument ==
    fn_out # << >> =>
        LET data == fn_in.extracted_data IN
        fn_out[1] =
            IF DOMAIN data = {} THEN FALSE
            ELSE IF fn_in.type = SOCIAL_SECURITY_CARD
                THEN HasWellFormedSsn(data)
            ELSE \A f \in RequiredFields(fn_in.type) :
                     f \in DOMAIN data /\ data[f] \notin {None, ""}

\* C15: the check of the social security number accepts exactly the values
\* made of three digits, a hyphen, two digits, a hyphen and four digits, or
\* of nine digits; an empty or missing value is rejected.
C15_SsnCheck ==
    fn_out # << >> => fn_out[1] = HasWellFormedSsn(fn_in)

(***************************************************************************)
(* The verification status of the documents of a run (Spec)                *)
(***************************************************************************)
Validated == Count(trace, "validate_documents") > 0

\* C16: the documents come out of the scan Pending; the document-validation
\* stage, which runs at most once, sets each to Verified or Rejected (its
\* verdict on the document), and the status stays that for the rest of the
\* run; the documents a result carries are all Verified or Rejected.
C16_StatusLifecycle ==
    /\ Count(trace, "validate_documents") <= 1
    /\ pc = "validate_documents" =>
           /\ documents # << >>
           /\ \A i \in DocIndices :
                  documents[i].verification_status = VS_PENDING
    /\ Validated =>
           \A i \in DocIndices :
               /\ documents[i].verification_status \in {VS_VERIFIED, VS_REJECTED}
               /\ documents[i].verification_status = VS_VERIFIED
                      <=> validate_document(documents[i])
    /\ Returned /\ result[1].documents # << >> =>
           /\ result[1].documents[1] = documents
           /\ \A i \in 1..Len(result[1].documents[1]) :
                  result[1].documents[1][i].verification_status
                      \in {VS_VERIFIED, VS_REJECTED}

\* a result carrying a Verified and a Rejected document
C16_Witness ==
    /\ Returned
    /\ result[1].documents # << >>
    /\ \E i, j \in 1..Len(result[1].documents[1]) :
           /\ result[1].documents[1][i].verification_status = VS_VERIFIED
           /\ result[1].documents[1][j].verification_status = VS_REJECTED

(***************************************************************************)
(* The order of the stages of a run (Spec)                                 *)
(***************************************************************************)
StagesActivated ==
    <<"scan", "validate_documents", "compile", "validate_customer",
      "create_account", "activate_account">>

StagesAwaiting ==
    <<"scan", "validate_documents", "compile", "validate_customer",
      "create_account", "await_verification">>

IsPrefix(s, t) == Len(s) <= Len(t) /\ \A i \in 1..Len(s) : s[i] = t[i]

\* where a run that has gone through n stages and has not returned stands
PcAfter(n) ==
    CASE n = 0 -> "scan"
      [] n = 1 -> "validate_documents"
      [] n = 2 -> "compile"
      [] n = 3 -> "validate_customer"
      [] n = 4 -> "create_account"
      [] n = 5 -> "created"
      [] OTHER -> "done"

\* some stage of a run can be taken
StageEnabled ==
    ENABLED (\/ Scan \/ ValidateDocuments \/ Compile \/ ValidateCustomer
             \/ CreateAccount \/ Activate \/ AwaitVerification)

\* the stages gone through are in order, a run that has not returned can
\* take a stage, a run that has ended has a result
ForwardPipeline ==
    /\ IsPrefix(trace, StagesActivated) \/ IsPrefix(trace, StagesAwaiting)
    /\ pc \notin {"idle", "done"} =>
           /\ pc = PcAfter(Len(trace))
           /\ StageEnabled
    /\ pc = "idle" => trace = << >>
    /\ Done =>
           /\ trace # << >>
           /\ ~raised
           /\ result # << >>
           /\ result[1].status \in {"completed", "pending_verification",
                                    "validation_failed", "error"}

\* C17: at every moment of every behaviour the stages a run has gone
\* through are an initial part of scan, validate documents, compile,
\* validate customer, create account, then activate or await verification
\* (so each at most once and never out of order); a run that has not
\* returned can always take its next stage, and a run that has ended has a
\* ProcessingResult.
C17_ForwardPipeline == []ForwardPipeline

\* a second run of the coordinator that went through all six stages
C17_Witness ==
    /\ Done
    /\ runs = 2
    /\ trace = StagesAwaiting
    /\ result[1].status = "pending_verification"

(***************************************************************************)
(* The accounts a run creates (Spec)                                       *)
(***************************************************************************)
\* C18: right after create_account the store holds the account under its
\* number with status pending and balance 0, for the customer compiled in
\* this run; the bank account of a result has the id of the result's
\* customer data as customer_id; no balance is negative.
C18_CreatedPendingZero ==
    /\ pc = "created" =>
           LET acct == bank_account[1] IN
           /\ acct.account_number \in DOMAIN store
           /\ store[acct.account_number] = acct
           /\ acct.status = AS_PENDING
           /\ acct.balance = 0
           /\ acct.customer_id = customer_data[1].id
    /\ Returned /\ result[1].bank_account # << >> =>
           /\ result[1].customer_data # << >>
           /\ result[1].bank_account[1].customer_id
                  = result[1].customer_data[1].id
           /\ result[1].customer_data[1].id = runs
    /\ \A n \in DOMAIN store : store[n].balance >= 0
    /\ bank_account # << >> => bank_account[1].balance >= 0

\* the second run has created its account next to the first run's
C18_Witness ==
    /\ pc = "created"
    /\ runs = 2
    /\ Cardinality(DOMAIN store) = 2
    /\ \E n \in DOMAIN store : store[n].customer_id = 1
    /\ store[bank_account[1].account_number].customer_id = 2

(***************************************************************************)
(* Account numbers across the runs that share the store (Spec)             *)
(***************************************************************************)
\* C19: the number of the account a run has created was not in the store
\* when the run began, and the records that were in the store then are
\* still there as they were.
C19_UniqueAccountNumbers ==
    pc = "created" =>
        /\ bank_account[1].account_number \notin DOMAIN store0
        /\ \A n \in DOMAIN store0 : store[n] = store0[n]

(***************************************************************************)
(* Activating an account (SpecActivate)                                    *)
(***************************************************************************)
\* C20: activate_account never raises; when the update of the store
\* succeeds the stored status of the account is active, nothing else in
\* the store has changed, and the call returns true; when the update fails
\* (an absent account number included) the call returns false and the store
\* is as it was.
C20_ActivateNeverRaises ==
    fn_out # << >> =>
        LET before == fn_in.store
            after == fn_out[1].store
            n == fn_in.account_number
            succeeds == fn_in.write_ok /\ n \in DOMAIN before
        IN /\ ~fn_out[1].raised
           /\ fn_out[1].value = succeeds
           /\ succeeds =>
                  /\ DOMAIN after = DOMAIN before
                  /\ after[n].status = AS_ACTIVE
                  /\ after[n].account_number = n
                  /\ after[n].balance = before[n].balance
                  /\ after[n].customer_id = before[n].customer_id
                  /\ \A m \in DOMAIN before \ {n} : after[m] = before[m]
           /\ ~succeeds => after = before

\* an account number that is not in a non-empty store: false, store as it was
C20_Witness ==
    /\ fn_out # << >>
    /\ fn_in.write_ok
    /\ fn_in.store # EmptyDict
    /\ fn_in.account_number \notin DOMAIN fn_in.store
    /\ fn_out[1].value = FALSE
    /\ fn_out[1].store = fn_in.store

(***************************************************************************)
(* The order of the documents of a run (Spec)                              *)
(***************************************************************************)
\* the files of the batch the scan makes a document of
Scanned(fs) == {i \in 1..Len(fs) : fs[i].shape = "ok"}

\* the k-th smallest element of S
Nth(S, k) == CHOOSE m \in S : Cardinality({j \in S : j <= m}) = k

\* C21: the documents of a run are one per file the scan made a document
\* of, in the order of the files; the documents of the compiled customer
\* data and those of the result are these documents, ids and statuses
\* included.
C21_DocumentsKeepOrder ==
    /\ documents # << >> =>
           /\ Len(documents) = Cardinality(Scanned(files))
           /\ \A k \in DocIndices :
                  /\ documents[k].id = <<runs, Nth(Scanned(files), k)>>
                  /\ documents[k].file_name
                         = files[Nth(Scanned(files), k)].filename
    /\ customer_data # << >> => customer_data[1].documents = documents
    /\ Returned /\ result[1].documents # << >> =>
           /\ result[1].documents[1] = documents
           /\ result[1].customer_data # << >>
           /\ result[1].customer_data[1].documents = result[1].documents[1]

\* three files, the second skipped by the scan: two documents of different
\* files in the result
C21_Witness ==
    /\ Returned
    /\ Len(files) = 3
    /\ Scanned(files) = {1, 3}
    /\ files[1].filename # files[3].filename
    /\ result[1].documents # << >>
    /\ Len(result[1].documents[1]) = 2
    /\ result[1].documents[1][2].file_name = files[3].filename

(***************************************************************************)
(* More on compiling the customer data (SpecCompile)                       *)
(***************************************************************************)
\* C22: the compiled customer data always have the placeholder email and
\* phone number (no document supplies either), so when the personal fields
\* are not all there it is first_name, last_name or date_of_birth that is
\* empty.
C22_PlaceholdersSet ==
    Compiled =>
        /\ fn_out[1].email = "customer@example.com"
        /\ fn_out[1].phone_number = "555-0123"
        /\ ~PersonalFilled(fn_out[1]) =>
               \/ fn_out[1].first_name = ""
               \/ fn_out[1].last_name = ""
               \/ fn_out[1].date_of_birth = ""

\* no identity document in the batch: the personal fields are not all
\* there, email and phone number are
C22_Witness ==
    /\ Compiled
    /\ Len(fn_in) = 2
    /\ \A i \in 1..2 : fn_in[i].type \notin {DRIVERS_LICENSE, PASSPORT}
    /\ fn_out[1].first_name = ""
    /\ fn_out[1].email # ""
    /\ fn_out[1].phone_number # ""

\* C23: the annual income of the compiled customer data is never negative.
C23_IncomeNonNegative ==
    Compiled => fn_out[1].employment_info.annual_income >= 0

IdKinds == {DRIVERS_LICENSE, PASSPORT}

\* the street line docs[i] carries: the address of an identity document,
\* the street of a proof of address, None for any other document
StreetLine(docs, i) ==
    IF docs[i].type \in IdKinds THEN Get(docs[i].extracted_data, "address")
    ELSE IF docs[i].type = PROOF_OF_ADDRESS
        THEN Get(docs[i].extracted_data, "street")
    ELSE None

WithStreetLine(docs) ==
    {i \in 1..Len(docs) : StreetLine(docs, i) \notin {None, ""}}

\* C24: the compiled street is the last non-empty street line in input
\* order, whether it is the address of a driver's license or passport or
\* the street of a proof of address ("" when no document has one): a later
\* proof of address overwrites an identity document's address, and a later
\* identity document overwrites a proof of address's street.
C24_StreetPrecedence ==
    Compiled =>
        LET S == WithStreetLine(fn_in) IN
        /\ S = {} => fn_out[1].address.street = ""
        /\ S # {} => fn_out[1].address.street = StreetLine(fn_in, Last(S))
        /\ \A i, j \in S :
               i < j /\ j = Last(S) /\ fn_in[i].type = PROOF_OF_ADDRESS
                   /\ fn_in[j].type \in IdKinds
               => fn_out[1].address.street = Get(fn_in[j].extracted_data, "address")
        /\ \A i, j \in S :
               i < j /\ j = Last(S) /\ fn_in[i].type \in IdKinds
                   /\ fn_in[j].type = PROOF_OF_ADDRESS
               => fn_out[1].address.street = Get(fn_in[j].extracted_data, "street")

\* a proof of address with street "9 Elm Rd", then a driver's license whose
\* address is another street: the license's address is the compiled street
C24_Witness ==
    /\ Compiled
    /\ Len(fn_in) = 2
    /\ fn_in[1].type = PROOF_OF_ADDRESS
    /\ Get(fn_in[1].extracted_data, "street") = "9 Elm Rd"
    /\ fn_in[2].type = DRIVERS_LICENSE
    /\ Get(fn_in[2].extracted_data, "address") = "123 Main St"
    /\ fn_out[1].address.street = "123 Main St"

\* the customer data compiled of the documents before the last one
BeforeLast == _compile_customer_data(SubSeq(fn_in, 1, Len(fn_in) - 1), 1)

\* C25: folding a driver's license or passport leaves city, state, zip
\* code, social security number and employment info as they were, also when
\* the document has a state; folding a bank statement leaves every
\* attribute as it was.
C25_FoldFrame ==
    Compiled /\ fn_in # << >> =>
        LET last == fn_in[Len(fn_in)]
            p == fn_out[1]
            q == BeforeLast
        IN /\ last.type \in IdKinds =>
                  /\ p.address.city = q.address.city
                  /\ p.address.state = q.address.state
                  /\ p.address.zip_code = q.address.zip_code
                  /\ p.address.country = q.address.country
                  /\ p.social_security_number = q.social_security_number
                  /\ p.employment_info = q.employment_info
                  /\ p.email = q.email
                  /\ p.phone_number = q.phone_number
           /\ last.type = BANK_STATEMENT =>
                  p = [q EXCEPT !.documents = fn_in]

\* a driver's license with state "CA" folded after a proof of address with
\* state "NY": the state stays "NY"
C25_Witness ==
    /\ Compiled
    /\ Len(fn_in) = 2
    /\ fn_in[1].type = PROOF_OF_ADDRESS
    /\ Get(fn_in[1].extracted_data, "state") = "NY"
    /\ fn_in[2].type = DRIVERS_LICENSE
    /\ Get(fn_in[2].extracted_data, "state") = "CA"
    /\ fn_out[1].address.state = "NY"
    /\ fn_out[1].first_name = "John"

(***************************************************************************)
(* A completed run and the store (Spec)                                    *)
(***************************************************************************)
\* C26: when a run returns status completed, the record the store holds
\* under the number of the run's account has status active.
C26_CompletedMeansActive ==
    Returned /\ result[1].status = "completed" =>
        LET n == result[1].bank_account[1].account_number IN
        /\ n \in DOMAIN store
        /\ store[n].status = AS_ACTIVE

(***************************************************************************)
(* Which batches get an account (SpecProvision)                            *)
(***************************************************************************)
Provisioned == fn_out # << >>

Has(doc, key) == Get(doc.extracted_data, key) \notin {None, ""}

OfKind(docs, kinds) == {i \in 1..Len(docs) : docs[i].type \in kinds}

PositiveSalary(doc) ==
    /\ Has(doc, "salary")
    /\ FloatParses(Get(doc.extracted_data, "salary"))
    /\ FloatOf(Get(doc.extracted_data, "salary")) > 0

\* C27 as stated: a batch that gets an account has one identity document
\* with first name, last name and date of birth, one proof of address with
\* city, state and zip code, and one employment document with employer,
\* position and a positive salary.
C27_Original ==
    Provisioned /\ fn_out[1].creates =>
        /\ \E i \in OfKind(fn_in, IdKinds) :
               /\ Has(fn_in[i], "first_name")
               /\ Has(fn_in[i], "last_name")
               /\ Has(fn_in[i], "date_of_birth")
        /\ \E i \in OfKind(fn_in, {PROOF_OF_ADDRESS}) :
               /\ Has(fn_in[i], "city")
               /\ Has(fn_in[i], "state")
               /\ Has(fn_in[i], "zip_code")
        /\ \E i \in OfKind(fn_in, {EMPLOYMENT_VERIFICATION}) :
               /\ Has(fn_in[i], "employer")
               /\ Has(fn_in[i], "position")
               /\ PositiveSalary(fn_in[i])

\* C27: a batch that gets an account has identity documents that supply,
\* each field by some document, first name, last name and date of birth,
\* proofs of address that supply city, state and zip code, and employment
\* documents that supply employer, position and a positive salary; so it
\* has at least one document of each of the three kinds.
C27_RequiredKinds ==
    Provisioned /\ fn_out[1].creates =>
        /\ \A f \in {"first_name", "last_name", "date_of_birth"} :
               \E i \in OfKind(fn_in, IdKinds) : Has(fn_in[i], f)
        /\ \A f \in {"city", "state", "zip_code"} :
               \E i \in OfKind(fn_in, {PROOF_OF_ADDRESS}) : Has(fn_in[i], f)
        /\ \A f \in {"employer", "position"} :
               \E i \in OfKind(fn_in, {EMPLOYMENT_VERIFICATION}) :
                   Has(fn_in[i], f)
        /\ \E i \in OfKind(fn_in, {EMPLOYMENT_VERIFICATION}) :
               PositiveSalary(fn_in[i])
        /\ OfKind(fn_in, IdKinds) # {}
        /\ OfKind(fn_in, {PROOF_OF_ADDRESS}) # {}
        /\ OfKind(fn_in, {EMPLOYMENT_VERIFICATION}) # {}

\* an account for a batch in which two proofs of address together, and
\* neither alone, supply city, state and zip code
C27_Witness ==
    /\ Provisioned
    /\ fn_out[1].creates
    /\ Len(fn_in) = 4
    /\ Cardinality(OfKind(fn_in, {PROOF_OF_ADDRESS})) = 2
    /\ \A i \in OfKind(fn_in, {PROOF_OF_ADDRESS}) :
           ~(Has(fn_in[i], "city") /\ Has(fn_in[i], "state")
               /\ Has(fn_in[i], "zip_code"))

\* C28: the social security number has no influence on the validation of
\* the customer data: with any other social security number, the empty one
\* included, the compiled customer data are valid exactly when they are
\* valid as compiled; so a batch without a social security card gets an
\* account when the rest is there.
C28_SsnNoInfluence ==
    Provisioned =>
        LET c == fn_out[1].customer_data IN
        /\ \A number \in {"", "123-45-6789", "12-345-6789"} :
               validate_customer_data(
                   [c EXCEPT !.social_security_number = number])
                   = fn_out[1].creates
        /\ (/\ PersonalFilled(c) /\ AddressFilled(c) /\ EmploymentFilled(c)
            /\ c.social_security_number = "") => fn_out[1].creates

\* a batch without a social security card, every document verified: the
\* account is created and activated with an empty social security number
C28_Witness ==
    /\ Provisioned
    /\ OfKind(fn_in, {SOCIAL_SECURITY_CARD}) = {}
    /\ fn_out[1].customer_data.social_security_number = ""
    /\ fn_out[1].creates
    /\ fn_out[1].activates

Flip(status) == IF status = VS_VERIFIED THEN VS_REJECTED ELSE VS_VERIFIED

\* C29: the compiled attributes do not depend on the verification status
\* of the documents: compiling the same documents with every status
\* flipped, or with every status rejected, gives the same customer data up
\* to the statuses in its list of documents; the fields of a rejected
\* document are in the profile like those of a verified one.
C29_CompileIgnoresStatus ==
    Provisioned =>
        LET docs == fn_out[1].documents
            flipped == [i \in 1..Len(docs) |->
                           [docs[i] EXCEPT !.verification_status = Flip(@)]]
            rejected == [i \in 1..Len(docs) |->
                            [docs[i] EXCEPT !.verification_status = VS_REJECTED]]
        IN /\ [_compile_customer_data(flipped, 1) EXCEPT !.documents = docs]
                  = fn_out[1].customer_data
           /\ [_compile_customer_data(rejected, 1) EXCEPT !.documents = docs]
                  = fn_out[1].customer_data
           /\ \A f \in {"first_name", "last_name", "date_of_birth"} :
                  LET S == {i \in OfKind(docs, IdKinds) : Has(docs[i], f)} IN
                  S # {} => AttrOf(fn_out[1].customer_data, f)
                                = docs[Last(S)].extracted_data[f]

\* four documents, every one rejected, and the account is created
C29_Witness ==
    /\ Provisioned
    /\ Len(fn_in) = 4
    /\ \A i \in 1..4 : fn_out[1].documents[i].verification_status = VS_REJECTED
    /\ fn_out[1].creates
    /\ ~fn_out[1].activates
====
